---- MODULE Spec2Model ----
(***************************************************************************)
(* RateSense - the foreign-exchange explorer of crypto-dashboard.          *)
(*                                                                         *)
(* The module models the state record `state`, the three fetches and       *)
(* refreshAll (with the requests in flight), the event handlers, and the   *)
(* renderers renderRateCards, renderStatsAndChart and renderConversion.    *)
(*                                                                         *)
(* Numbers.  A JavaScript value is a record [t, n, d]: t = "num" is the    *)
(* rational n/d in lowest terms (d > 0); the other tags are NaN,           *)
(* Infinity, -Infinity and undefined.  Arithmetic on "num" is exact: the   *)
(* rounding of IEEE-754 doubles is not modelled.                           *)
(*                                                                         *)
(* Dates.  A calendar day is an integer, the number of days from today     *)
(* (0 is today, -1 yesterday); the string a date is printed as is not      *)
(* modelled, only its order.  state.date, the date picker's value, is a    *)
(* string ("" when no date is picked).                                     *)
(***************************************************************************)
EXTENDS Integers, Sequences, FiniteSets, TLC

----------------------------------------------------------------------------
(* JavaScript numbers *)

Abs(x) == IF x < 0 THEN -x ELSE x

RECURSIVE Gcd(_, _)
Gcd(a, b) == IF b = 0 THEN a ELSE Gcd(b, a % b)

NaN == [t |-> "NaN", n |-> 0, d |-> 1]
Undefined == [t |-> "undefined", n |-> 0, d |-> 1]
PosInf == [t |-> "Infinity", n |-> 1, d |-> 1]
NegInf == [t |-> "-Infinity", n |-> -1, d |-> 1]

\* the rational n/d, d # 0, in lowest terms
Q(n, d) ==
  LET g == Gcd(Abs(n), Abs(d))
      s == IF d < 0 THEN -1 ELSE 1
  IN  [t |-> "num", n |-> (s * n) \div g, d |-> (s * d) \div g]

Int2Num(i) == Q(i, 1)

IsNum(x) == x.t = "num"
IsInf(x) == x.t \in {"Infinity", "-Infinity"}
Sign(x) == IF x.n > 0 THEN 1 ELSE IF x.n < 0 THEN -1 ELSE 0
InfOf(s) == IF s > 0 THEN PosInf ELSE NegInf

\* Number(x): undefined converts to NaN
ToNumber(x) == IF x.t = "undefined" THEN NaN ELSE x

\* a + b
Add(a0, b0) ==
  LET a == ToNumber(a0)
      b == ToNumber(b0)
  IN  IF a.t = "NaN" \/ b.t = "NaN" THEN NaN
      ELSE IF IsInf(a) /\ IsInf(b) THEN (IF a = b THEN a ELSE NaN)
      ELSE IF IsInf(a) THEN a
      ELSE IF IsInf(b) THEN b
      ELSE Q(a.n * b.d + b.n * a.d, a.d * b.d)

\* -a
Neg(a0) ==
  LET a == ToNumber(a0)
  IN  IF a.t = "NaN" THEN NaN
      ELSE IF IsInf(a) THEN InfOf(-Sign(a))
      ELSE Q(-a.n, a.d)

\* a - b
Sub(a, b) == Add(a, Neg(b))

\* a * b
Mul(a0, b0) ==
  LET a == ToNumber(a0)
      b == ToNumber(b0)
  IN  IF a.t = "NaN" \/ b.t = "NaN" THEN NaN
      ELSE IF IsInf(a) \/ IsInf(b)
           THEN (IF Sign(a) * Sign(b) = 0 THEN NaN ELSE InfOf(Sign(a) * Sign(b)))
      ELSE Q(a.n * b.n, a.d * b.d)

\* a / b: a division by zero does not throw, it gives NaN or an infinity
Div(a0, b0) ==
  LET a == ToNumber(a0)
      b == ToNumber(b0)
  IN  IF a.t = "NaN" \/ b.t = "NaN" THEN NaN
      ELSE IF IsInf(a) THEN (IF IsInf(b) THEN NaN
                             ELSE InfOf(Sign(a) * (IF Sign(b) < 0 THEN -1 ELSE 1)))
      ELSE IF IsInf(b) THEN Q(0, 1)
      ELSE IF b.n = 0 THEN (IF a.n = 0 THEN NaN ELSE InfOf(Sign(a)))
      ELSE Q(a.n * b.d, a.d * b.n)

\* a < b and a <= b: every comparison with NaN is false
Lt(a0, b0) ==
  LET a == ToNumber(a0)
      b == ToNumber(b0)
  IN  IF a.t = "NaN" \/ b.t = "NaN" THEN FALSE
      ELSE IF a = b THEN FALSE
      ELSE IF a.t = "-Infinity" \/ b.t = "Infinity" THEN TRUE
      ELSE IF a.t = "Infinity" \/ b.t = "-Infinity" THEN FALSE
      ELSE a.n * b.d < b.n * a.d

Le(a0, b0) ==
  LET a == ToNumber(a0)
      b == ToNumber(b0)
  IN  IF a.t = "NaN" \/ b.t = "NaN" THEN FALSE ELSE a = b \/ Lt(a, b)

\* a === b on numbers and undefined: NaN is not equal to itself
StrictEq(a, b) == a.t # "NaN" /\ b.t # "NaN" /\ a = b

\* Math.max(a, b) and Math.min(a, b): NaN if either argument converts to NaN
Max2(a0, b0) ==
  LET a == ToNumber(a0)
      b == ToNumber(b0)
  IN  IF a.t = "NaN" \/ b.t = "NaN" THEN NaN ELSE IF Lt(a, b) THEN b ELSE a

Min2(a0, b0) ==
  LET a == ToNumber(a0)
      b == ToNumber(b0)
  IN  IF a.t = "NaN" \/ b.t = "NaN" THEN NaN ELSE IF Lt(b, a) THEN b ELSE a

\* Math.floor(a)
Floor(a0) ==
  LET a == ToNumber(a0)
  IN  IF ~IsNum(a) THEN a ELSE Q(a.n \div a.d, 1)

\* the left operand kept whatever it is
OrElse_keep(x, y) == x

\* x || y on numbers: y when x is 0, NaN or undefined
OrElse(x, y) == IF x.t \in {"NaN", "undefined"} \/ (IsNum(x) /\ x.n = 0) THEN y ELSE x

\* x ?? y: y when x is undefined (or null)
Coalesce(x, y) == IF x.t = "undefined" THEN y ELSE x

----------------------------------------------------------------------------
(* Formatting *)

Dash == [t |-> "text", s |-> "dash", n |-> 0, d |-> 1]
InfText(x) == [t |-> "text", s |-> x.t, n |-> 0, d |-> 1]

Pow10(k) == IF k = 0 THEN 1 ELSE IF k = 2 THEN 100 ELSE IF k = 4 THEN 10000 ELSE 1000000

\* x rounded to k decimals, halves away from zero (Intl.NumberFormat, toFixed)
RoundTo(x, k) ==
  LET m == Abs(x.n) * Pow10(k)
      r == (2 * m + x.d) \div (2 * x.d)
  IN  Q(Sign(x) * r, Pow10(k))

\* fmt(n): the placeholder for NaN, otherwise at most 6 fraction digits
fmt(x) ==
  LET val == ToNumber(x)
  IN  IF val.t = "NaN" THEN Dash
      ELSE IF IsInf(val) THEN InfText(val)
      ELSE [t |-> "text", s |-> "num", n |-> RoundTo(val, 6).n, d |-> RoundTo(val, 6).d]

\* x.toFixed(k): the texts "NaN" and "Infinity" for the values that are no
\* finite number
toFixed(x, k) ==
  IF x.t = "NaN" THEN [t |-> "text", s |-> "NaN", n |-> 0, d |-> 1]
  ELSE IF IsInf(x) THEN InfText(x)
  ELSE [t |-> "text", s |-> "num", n |-> RoundTo(x, k).n, d |-> RoundTo(x, k).d]

\* the formatter of the axis values in the second program of script.js:
\* fmt2 = n => (Number(n) || 0).toFixed(2)
fmt2(x) == toFixed(OrElse(ToNumber(x), Int2Num(0)), 2)

----------------------------------------------------------------------------
(* renderStatsAndChart: statistics and chart geometry *)

W == 1000
H == 300
P == 36
M == [left |-> 80, right |-> 36, top |-> 20, bottom |-> 60]
plotW == W - M.left - M.right
plotH == H - M.top - M.bottom

\* The renderer variants: "P" is src/unnamed/part_001 and the first program of
\* src/script.js (margin P, no axis ticks), "PT" is src/unnamed/part_000
\* (margin P, axis ticks), "MT" is the second program of src/script.js
\* (margins M, axis ticks).
Layouts == {"P", "PT", "MT"}

Empty == [t |-> "empty"]

\* Math.max(...vals), Math.min(...vals) and vals.reduce((a,b)=>a+b, 0),
\* accumulated from the first value on; once NaN, the result stays NaN
RECURSIVE MaxFrom(_, _, _)
MaxFrom(vals, k, acc) ==
  IF k > Len(vals) THEN acc
  ELSE IF acc.t = "NaN" THEN NaN
  ELSE MaxFrom(vals, k + 1, Max2(acc, vals[k]))

RECURSIVE MinFrom(_, _, _)
MinFrom(vals, k, acc) ==
  IF k > Len(vals) THEN acc
  ELSE IF acc.t = "NaN" THEN NaN
  ELSE MinFrom(vals, k + 1, Min2(acc, vals[k]))

RECURSIVE SumFrom(_, _, _)
SumFrom(vals, k, acc) ==
  IF k > Len(vals) THEN acc
  ELSE IF acc.t = "NaN" THEN NaN
  ELSE SumFrom(vals, k + 1, Add(acc, vals[k]))

MaxOf(vals) == MaxFrom(vals, 1, NegInf)
MinOf(vals) == MinFrom(vals, 1, PosInf)

Vals(s) == [i \in 1..Len(s) |-> s[i].v]
Hi(s) == MaxOf(Vals(s))
Lo(s) == MinOf(Vals(s))
Avg(s) == Div(SumFrom(Vals(s), 1, Int2Num(0)), Int2Num(Len(s)))

\* the divisor of xs without the || 1
XsDivisor_unguarded(n) == Int2Num(n - 1)

\* the divisor of xs: state.series.length-1 || 1
XsDivisor(n) == OrElse(Int2Num(n - 1), Int2Num(1))

\* xs spreading the samples over the whole width W
xs_fullWidth(i, n, layout) ==
  IF layout = "MT"
  THEN Add(Int2Num(M.left), Div(Mul(Int2Num(i), Int2Num(W)), XsDivisor(n)))
  ELSE Add(Int2Num(P), Div(Mul(Int2Num(i), Int2Num(W)), XsDivisor(n)))

\* xs(i) for the zero-based index i of a series of length n
xs(i, n, layout) ==
  IF layout = "MT"
  THEN Add(Int2Num(M.left), Div(Mul(Int2Num(i), Int2Num(plotW)), XsDivisor(n)))
  ELSE Add(Int2Num(P), Div(Mul(Int2Num(i), Int2Num(W - 2 * P)), XsDivisor(n)))

ysFlat(layout) ==
  IF layout = "MT"
  THEN Add(Int2Num(M.top), Div(Int2Num(plotH), Int2Num(2)))
  ELSE Div(Int2Num(H), Int2Num(2))

ysScaled(v, lo, hi, layout) ==
  IF layout = "MT"
  THEN Sub(Int2Num(M.top + plotH), Div(Mul(Sub(v, lo), Int2Num(plotH)), Sub(hi, lo)))
  ELSE Sub(Int2Num(H - P), Div(Mul(Sub(v, lo), Int2Num(H - 2 * P)), Sub(hi, lo)))

\* ys without the hi === lo branch
ys_unguarded(v, lo, hi, layout) == ysScaled(v, lo, hi, layout)

\* ys(v) = hi === lo ? midline : scaled
ys(v, lo, hi, layout) ==
  IF StrictEq(hi, lo) THEN ysFlat(layout) ELSE ysScaled(v, lo, hi, layout)

\* dPath drawing the samples from the last to the first
dPath_reversed(s, layout) ==
  [k \in 1..Len(s) |->
     [cmd |-> IF k - 1 = 0 THEN "M" ELSE "L",
      x |-> xs(k - 1, Len(s), layout),
      y |-> ys(s[Len(s) + 1 - k].v, Lo(s), Hi(s), layout)]]

\* dPath: one command per sample, "M" for the first and "L" for the others
dPath(s, layout) ==
  [k \in 1..Len(s) |->
     [cmd |-> IF k - 1 = 0 THEN "M" ELSE "L",
      x |-> xs(k - 1, Len(s), layout),
      y |-> ys(s[k].v, Lo(s), Hi(s), layout)]]

\* the two closing segments of the fill path
fillTail(layout) ==
  IF layout = "MT"
  THEN << [cmd |-> "L", x |-> Int2Num(M.left + plotW), y |-> Int2Num(M.top + plotH)],
          [cmd |-> "L", x |-> Int2Num(M.left), y |-> Int2Num(M.top + plotH)] >>
  ELSE << [cmd |-> "L", x |-> Int2Num(W - P), y |-> Int2Num(H - P)],
          [cmd |-> "L", x |-> Int2Num(P), y |-> Int2Num(H - P)] >>

gridY(s, layout) ==
  LET g(v) == [y |-> ys(v, Lo(s), Hi(s), layout), v |-> v, label |-> fmt(v)]
  IN  << g(Lo(s)), g(Avg(s)), g(Hi(s)) >>

xTickCount(n) == IF n < 8 THEN n ELSE 8

\* the divisor of the stride: xTickCount - 1
StepDivisor(n) == Int2Num(xTickCount(n) - 1)

step(n) == Max2(Int2Num(1), Floor(Div(Int2Num(n - 1), StepDivisor(n))))

\* for (let i = 0; i < n; i += step) tickIdx.push(i)
RECURSIVE TickLoop(_, _, _, _)
TickLoop(i, n, st, acc) ==
  IF ~Lt(i, Int2Num(n)) THEN acc
  ELSE TickLoop(Add(i, st), n, st, Append(acc, i.n))

\* tickIdx without the push of the last index
tickIdx_lastNotForced(n) == TickLoop(Int2Num(0), n, step(n), <<>>)

tickIdx(n) ==
  LET t == TickLoop(Int2Num(0), n, step(n), <<>>)
  IN  IF t = <<>> \/ t[Len(t)] # n - 1 THEN Append(t, n - 1) ELSE t

xTicks(s, layout) ==
  LET t == tickIdx(Len(s))
  IN  [k \in 1..Len(t) |-> [i |-> t[k], x |-> xs(t[k], Len(s), layout), d |-> s[t[k] + 1].d]]

yTicks(s, layout) ==
  LET g(v) == [y |-> ys(v, Lo(s), Hi(s), layout), v |-> v,
                label |-> IF layout = "MT" THEN fmt2(v) ELSE fmt(v)]
  IN  << g(Hi(s)), g(Div(Add(Hi(s), Lo(s)), Int2Num(2))), g(Lo(s)) >>

\* state.series.findIndex(p => p.v === val): the zero-based index, or -1
findIndex(s, val) ==
  IF \E k \in 1..Len(s) : StrictEq(s[k].v, val)
  THEN (CHOOSE k \in 1..Len(s) :
          /\ StrictEq(s[k].v, val)
          /\ \A j \in 1..(k - 1) : ~StrictEq(s[j].v, val)) - 1
  ELSE -1

NoDot == [t |-> "none", i |-> -1]

dotAtValue(s, val, layout) ==
  LET i == findIndex(s, val)
  IN  IF i < 0 THEN NoDot
      ELSE [t |-> "circle", i |-> i, cx |-> xs(i, Len(s), layout),
            cy |-> ys(val, Lo(s), Hi(s), layout)]

\* the statistics without the return for an empty series
StatBarOf_unguarded(s) ==
  [t |-> "stats", high |-> fmt(Hi(s)), low |-> fmt(Lo(s)), avg |-> fmt(Avg(s)),
   hi |-> Hi(s), lo |-> Lo(s), mean |-> Avg(s), of |-> s]

\* els.statbar.innerHTML
StatBarOf(s) ==
  IF Len(s) = 0 THEN Empty
  ELSE [t |-> "stats", high |-> fmt(Hi(s)), low |-> fmt(Lo(s)), avg |-> fmt(Avg(s)),
        hi |-> Hi(s), lo |-> Lo(s), mean |-> Avg(s),
        of |-> s]    \* history: the series these statistics were computed from

\* els.chart.innerHTML
ChartOf(s, layout) ==
  IF Len(s) = 0 THEN Empty
  ELSE [t |-> "chart",
        layout |-> layout,
        stroke |-> dPath(s, layout),
        fill |-> dPath(s, layout) \o fillTail(layout),
        grid |-> IF layout = "P" THEN gridY(s, layout) ELSE yTicks(s, layout),
        xticks |-> IF layout = "P" THEN <<>> ELSE xTicks(s, layout),
        dotHi |-> dotAtValue(s, Hi(s), layout),
        dotLo |-> dotAtValue(s, Lo(s), layout)]

----------------------------------------------------------------------------
(* renderConversion *)

ConversionRec(r, feeFactor, amt) ==
  [t |-> "conversion", r |-> r, feeFactor |-> feeFactor,
   effectiveRate |-> Mul(r, feeFactor), out |-> Mul(amt, Mul(r, feeFactor)),
   shownRate |-> fmt(Mul(r, feeFactor)), shownOut |-> fmt(Mul(amt, Mul(r, feeFactor)))]

\* state.latest?.rate
RateOfLatest(lat) == IF lat.t = "null" THEN Undefined ELSE lat.rate

\* renderConversion with the fee taken as a fraction, not a percentage
ConversionOf_feeFraction(lat, amt, fee) ==
  ConversionRec(Coalesce(RateOfLatest(lat), Int2Num(1)),
                Max2(Int2Num(0), Sub(Int2Num(1), fee)), amt)

\* renderConversion without the clamp of the fee factor at 0
ConversionOf_unclamped(lat, amt, fee) ==
  ConversionRec(Coalesce(RateOfLatest(lat), Int2Num(1)),
                Sub(Int2Num(1), Div(fee, Int2Num(100))), amt)

\* els.conversion.innerHTML: the rate, the effective rate and the converted
\* amount that renderConversion shows
ConversionOf(lat, amt, fee) ==
  LET r == Coalesce(RateOfLatest(lat), Int2Num(1))
      feeFactor == Max2(Int2Num(0), Sub(Int2Num(1), Div(fee, Int2Num(100))))
  IN  ConversionRec(r, feeFactor, amt)

----------------------------------------------------------------------------
(* State *)

VARIABLES
  base,        \* state.base
  quote,       \* state.quote
  rangeDays,   \* state.rangeDays
  date,        \* state.date, "" when no date is picked
  amount,      \* state.amount
  feePct,      \* state.feePct
  series,      \* state.series: a sequence of [d, v]
  latest,      \* state.latest: Null or [date, rate]
  historical,  \* state.historical: Null or [date, rate]
  layout,      \* which renderer variant the running program has
  rateCards,   \* els.rateCards.innerHTML
  statbar,     \* els.statbar.innerHTML
  chart,       \* els.chart.innerHTML
  conversion,  \* els.conversion.innerHTML
  inflight,    \* the requests sent and not yet answered
  cyc,         \* history: one record per refreshAll (or lone fetchHistorical) started
  writer,      \* history: the run whose fetch wrote latest, series, historical last
  storage,     \* localStorage: the entries 'fx-favorites', 'theme', 'feePct'
  favorites,   \* state.favorites
  theme,       \* the data-theme attribute of the document
  feeEdited,   \* the fee input holds an edit whose 'change' event is still to come
  boot,        \* "boot" before the script has run, then "ready", or "failed" when init threw
  star         \* els.favToggle: aria-pressed is "true"

stateVars == <<base, quote, rangeDays, date, amount, feePct, series, latest, historical>>
pageVars == <<rateCards, statbar, chart, conversion>>
netVars == <<inflight, cyc, writer>>
storeVars == <<storage, favorites, theme, feeEdited, boot>>
vars == <<stateVars, layout, pageVars, netVars, storeVars, star>>

Null == [t |-> "null"]

\* the page before the first render
PageInit == rateCards = Empty /\ statbar = Empty /\ chart = Empty /\ conversion = Empty

\* localStorage.getItem of an entry that does not exist
Absent == [t |-> "absent", toks |-> <<>>]

\* a stored text, as the sequence of its tokens
Text(toks) == [t |-> "text", toks |-> toks]

Tok(k) == [k |-> k, s |-> <<>>, m |-> 0, e |-> 0]

\* a JavaScript array of pair keys
List(items) == [t |-> "list", items |-> items]

\* nothing stored, no favorites, the light theme, the handlers registered
StoreIdle ==
  /\ storage = [fav |-> Absent, theme |-> Absent, fee |-> Absent]
  /\ favorites = List(<<>>)
  /\ theme = "light"
  /\ feeEdited = FALSE
  /\ boot = "ready"
  /\ star = FALSE

\* nothing sent yet
NetInit ==
  /\ inflight = {}
  /\ cyc = <<>>
  /\ writer = [latest |-> 0, series |-> 0, historical |-> 0]

----------------------------------------------------------------------------
(* The renderer on its own: renderStatsAndChart applied to a stored series *)

MaxLen == 3

\* the values a stored sample can have: rates, and undefined, which
\* fetchSeries stores (o[state.quote]) when the response has no entry for
\* the quote currency selected at the time the response arrives
SampleValues == {Q(11, 10), Q(23, 20), Q(6, 5), Undefined}

\* a series on the last Len(vals) days, ascending by date
MkSeries(vals) == [i \in 1..Len(vals) |-> [d |-> i - Len(vals), v |-> vals[i]]]

SeriesInputs ==
  UNION {{MkSeries(vals) : vals \in [1..n -> SampleValues]} : n \in 0..MaxLen}

renderStatsAndChart ==
  /\ statbar' = StatBarOf(series)
  /\ chart' = ChartOf(series, layout)
  /\ UNCHANGED <<stateVars, layout, rateCards, conversion, netVars, storeVars, star>>

\* a series has been stored and the page not yet rendered
ChartInit ==
  /\ base = "USD" /\ quote = "EUR" /\ rangeDays = 30 /\ date = ""
  /\ amount = Int2Num(100) /\ feePct = Q(5, 2)
  /\ latest = Null /\ historical = Null
  /\ PageInit /\ NetInit /\ StoreIdle
  /\ layout \in Layouts
  /\ series \in SeriesInputs

ChartNext == renderStatsAndChart

ChartSpec == ChartInit /\ [][ChartNext]_vars

----------------------------------------------------------------------------
(* The renderer on series as long as the windows of the range selector *)

MaxTickLen == 31

\* the shapes of the long series: constant, alternating, rising
Shapes == {"flat", "saw", "rise"}

ShapeValue(shape, k) ==
  IF shape = "flat" THEN Q(6, 5)
  ELSE IF shape = "saw" THEN (IF k % 2 = 0 THEN Q(6, 5) ELSE Q(11, 10))
  ELSE Q(100 + k, 100)

LongSeries(n, shape) == [k \in 1..n |-> [d |-> k - n, v |-> ShapeValue(shape, k)]]

\* a series has been stored and the page not yet rendered
TickInit ==
  /\ base = "USD" /\ quote = "EUR" /\ rangeDays = 30 /\ date = ""
  /\ amount = Int2Num(100) /\ feePct = Q(5, 2)
  /\ latest = Null /\ historical = Null
  /\ PageInit /\ NetInit /\ StoreIdle
  /\ layout \in Layouts
  /\ series \in {LongSeries(n, shape) : n \in 1..MaxTickLen, shape \in Shapes}

TickNext == renderStatsAndChart

TickSpec == TickInit /\ [][TickNext]_vars

----------------------------------------------------------------------------
(* The conversion panel on its own: the amount and fee inputs *)

\* what the amount and fee inputs can hold: +e.target.value is a number, or
\* NaN for a text that is no number
AmountInputs == {NaN, Int2Num(0), Int2Num(1), Int2Num(50), Int2Num(100), Q(5, 2)}
FeeInputs == {NaN, Q(-50, 1), Int2Num(0), Q(5, 2), Int2Num(50), Int2Num(100), Int2Num(150)}

\* the rates a response can carry
Rates == {Q(9, 10), Q(6, 5)}

RateRec(d, r) == [t |-> "rate", date |-> d, rate |-> r]

\* renderConversion()
renderConversion(amt, fee) ==
  conversion' = ConversionOf(latest, amt, fee)

\* els.amount 'input': state.amount = +e.target.value || 0; renderConversion()
AmountInput(x) ==
  /\ amount' = OrElse(x, Int2Num(0))
  /\ renderConversion(amount', feePct)
  /\ UNCHANGED <<base, quote, rangeDays, date, feePct, series, latest, historical>>
  /\ UNCHANGED <<layout, rateCards, statbar, chart, netVars, storeVars, star>>

\* els.fee 'input': state.feePct = +e.target.value || 0; renderConversion()
FeeInput(x) ==
  /\ feePct' = OrElse(x, Int2Num(0))
  /\ renderConversion(amount, feePct')
  /\ UNCHANGED <<base, quote, rangeDays, date, amount, series, latest, historical>>
  /\ UNCHANGED <<layout, rateCards, statbar, chart, netVars>>
  /\ feeEdited' = TRUE
  /\ UNCHANGED <<storage, favorites, theme, boot, star>>

\* the latest rate has been fetched (or not yet: null; or stored without a
\* rate: undefined) and the page not yet rendered
ConvInit ==
  /\ base = "USD" /\ quote = "EUR" /\ rangeDays = 30 /\ date = ""
  /\ amount = Int2Num(100) /\ feePct = Q(5, 2)
  /\ series = <<>> /\ historical = Null
  /\ PageInit /\ NetInit /\ StoreIdle
  /\ layout = "P"
  /\ latest \in {Null} \cup {RateRec("today", r) : r \in Rates \cup {Undefined}}

ConvNext ==
  \/ \E x \in AmountInputs : AmountInput(x)
  \/ \E x \in FeeInputs : FeeInput(x)

ConvSpec == ConvInit /\ [][ConvNext]_vars

----------------------------------------------------------------------------
(* The application: fetches, refreshAll, event handlers *)

MaxRuns == 2

Currencies == {"USD", "EUR"}
RangeOptions == {7, 30}
DateInputs == {"", "2024-01-02"}
Kinds == {"latest", "series", "historical"}

\* what the amount and fee inputs are given in the application runs
TypedAmounts == {NaN}
TypedFees == {Int2Num(150)}

\* a request sent: the URL holds the pair (and date) of the moment of sending
Req(c, k, b, q, days, dt) ==
  [run |-> c, kind |-> k, base |-> b, quote |-> q, days |-> days, date |-> dt]

\* data.rates[state.quote] and o[state.quote]: the entry of the response for
\* the quote currency selected now, undefined when the response has none
Lookup(rates, q) == IF q \in DOMAIN rates THEN rates[q] ELSE Undefined

\* the rates object of a response to a request with to=q
RatesFor(q, r) == [c \in {q} |-> r]

\* for (d = start; d <= end; d + 1 day) out.push(d)
RECURSIVE daysLoop(_, _, _)
daysLoop(d, end, out) == IF d <= end THEN daysLoop(d + 1, end, Append(out, d)) ELSE out

daysArray(startDate, endDate) == daysLoop(startDate, endDate, <<>>)

\* a window one day too long
FlatSeries_extraDay(days) ==
  LET ds == daysArray(0 - days, 0)
  IN  [k \in 1..Len(ds) |-> [d |-> ds[k], v |-> Int2Num(1)]]

\* the series fetchSeries stores for an identical pair: 1 on each day of the window
FlatSeries(days) ==
  LET end == 0
      start == end - (days - 1)
      ds == daysArray(start, end)
  IN  [k \in 1..Len(ds) |-> [d |-> ds[k], v |-> Int2Num(1)]]

\* entries.sort(([a],[b]) => a.localeCompare(b)): ascending by date
RECURSIVE InsertByDate(_, _)
InsertByDate(e, sorted) ==
  IF sorted = <<>> THEN <<e>>
  ELSE IF e.d < Head(sorted).d THEN <<e>> \o sorted
  ELSE <<Head(sorted)>> \o InsertByDate(e, Tail(sorted))

\* the entries in the order of the response
SortByDate_asReceived(entries) == entries

RECURSIVE SortByDate(_)
SortByDate(entries) ==
  IF entries = <<>> THEN <<>>
  ELSE InsertByDate(entries[Len(entries)], SortByDate(SubSeq(entries, 1, Len(entries) - 1)))

\* the series fetchSeries stores from a response
SeriesFrom(entries, q) ==
  LET sorted == SortByDate(entries)
  IN  [k \in 1..Len(sorted) |-> [d |-> sorted[k].d, v |-> Lookup(sorted[k].o, q)]]

\* the bodies a series request can be answered with: Object.entries(data.rates)
\* in the order of the response, at most one entry per day
ServerDays == {-1, 0}
SeriesBodies(q) ==
  {<<>>}
  \cup {<<[d |-> d1, o |-> RatesFor(q, r1)]>> : d1 \in ServerDays, r1 \in Rates}
  \cup {<<[d |-> d1, o |-> RatesFor(q, Q(9, 10))], [d |-> d2, o |-> RatesFor(q, Q(6, 5))]>> :
          <<d1, d2>> \in {<<-1, 0>>, <<0, -1>>}}

\* els.rateCards.innerHTML
RateCardsOf(b, q, lat, hist) ==
  [t |-> "cards", base |-> b, quote |-> q, latest |-> lat, hist |-> hist]

\* a run started: refreshAll (op "refreshAll") or the date handler's
\* fetchHistorical (op "fetchHistorical")
Run(op, b, q, pend, st, rendered) ==
  [op |-> op, base |-> b, quote |-> q, sent |-> pend, pending |-> pend, done |-> Kinds \ pend, failed |-> {},
   status |-> st, rendered |-> rendered]

AllRenders == {"renderRateCards", "renderStatsAndChart", "renderConversion"}

\* updateFavStar(): on = state.favorites.includes(pairKey()) for the pair b/q
updateFavStar(items, b, q) == \E i \in 1..Len(items) : items[i] = <<b, q>>

\* refreshAll() for the state b, q, days, dt, amt, fee the handler has set;
\* synced: the handler has called syncControlsFromState() before it
refreshAll(b, q, days, dt, amt, fee, synced) ==
  LET same == b = q
      c == Len(cyc) + 1
      \* fetchLatest(), fetchSeries(days), fetchHistorical() up to their first await
      lat1 == IF same THEN RateRec("today", Int2Num(1)) ELSE latest
      ser1 == IF same THEN FlatSeries(days) ELSE series
      histNow == dt = "" \/ same
      hist1 == IF dt = "" THEN Null
               ELSE IF same THEN RateRec(dt, Int2Num(1)) ELSE historical
      reqs == IF same THEN {}
              ELSE {Req(c, "latest", b, q, 0, ""), Req(c, "series", b, q, days, "")}
                   \cup (IF histNow THEN {} ELSE {Req(c, "historical", b, q, 0, dt)})
      pend == {r.kind : r \in reqs}
  IN  /\ latest' = lat1
      /\ series' = ser1
      /\ historical' = hist1
      /\ inflight' = inflight \cup reqs
      /\ writer' = [latest |-> IF same THEN c ELSE writer.latest,
                    series |-> IF same THEN c ELSE writer.series,
                    historical |-> IF histNow THEN c ELSE writer.historical]
      \* fetchHistorical renders the rate cards itself; the join renders all
      /\ rateCards' = IF histNow THEN RateCardsOf(b, q, lat1, hist1) ELSE rateCards
      /\ statbar' = IF same THEN StatBarOf(ser1) ELSE statbar
      /\ chart' = IF same THEN ChartOf(ser1, layout) ELSE chart
      /\ conversion' = IF same THEN ConversionOf(lat1, amt, fee) ELSE conversion
      /\ cyc' = Append(cyc, Run("refreshAll", b, q, pend,
                                IF same THEN "joined" ELSE "running",
                                IF same THEN AllRenders
                                ELSE IF histNow THEN {"renderRateCards"} ELSE {}))
      /\ layout' = layout
      \* updateFavStar() runs in syncControlsFromState and after Promise.all
      /\ star' = IF layout = "P" /\ (synced \/ same) THEN updateFavStar(favorites.items, b, q) ELSE star
      /\ UNCHANGED storeVars

Started == Len(cyc) >= 1
CanStart == Started /\ Len(cyc) < MaxRuns

\* init(): the first refreshAll, after which the handlers are registered
InitialLoad ==
  /\ Len(cyc) = 0
  /\ refreshAll(base, quote, rangeDays, date, amount, feePct, FALSE)
  /\ UNCHANGED <<base, quote, rangeDays, date, amount, feePct>>

\* onPairChange, from the base select
ChangeBase(c) ==
  /\ CanStart /\ c # base
  /\ base' = c
  /\ refreshAll(c, quote, rangeDays, date, amount, feePct, FALSE)
  /\ UNCHANGED <<quote, rangeDays, date, amount, feePct>>

\* onPairChange, from the quote select
ChangeQuote(c) ==
  /\ CanStart /\ c # quote
  /\ quote' = c
  /\ refreshAll(base, c, rangeDays, date, amount, feePct, FALSE)
  /\ UNCHANGED <<base, rangeDays, date, amount, feePct>>

\* els.range 'change'
RangeChange(d) ==
  /\ CanStart /\ d # rangeDays
  /\ rangeDays' = d
  /\ refreshAll(base, quote, d, date, amount, feePct, FALSE)
  /\ UNCHANGED <<base, quote, date, amount, feePct>>

\* els.swap 'click' and Shift+S
Swap ==
  /\ CanStart
  /\ base' = quote /\ quote' = base
  /\ refreshAll(quote, base, rangeDays, date, amount, feePct, TRUE)
  /\ UNCHANGED <<rangeDays, date, amount, feePct>>

\* const state = {...}: the fields the reset handler assigns, as each program
\* initialises them
InitialState(l) ==
  [base |-> "USD", quote |-> IF l = "P" THEN "EUR" ELSE "CAD", rangeDays |-> 30,
   date |-> "", amount |-> Int2Num(100),
   feePct |-> IF l = "MT" THEN Int2Num(0) ELSE Q(5, 2)]

\* the object the reset handler assigns to the state
ResetState(l) ==
  [base |-> "USD", quote |-> IF l = "P" THEN "EUR" ELSE "CAD", rangeDays |-> 30,
   date |-> "", amount |-> Int2Num(100), feePct |-> Q(5, 2)]

\* els.reset 'click'
Reset ==
  LET to == ResetState(layout)
  IN  /\ CanStart
      /\ base' = to.base /\ quote' = to.quote /\ rangeDays' = to.rangeDays
      /\ date' = to.date /\ amount' = to.amount /\ feePct' = to.feePct
      /\ refreshAll(to.base, to.quote, to.rangeDays, to.date, to.amount, to.feePct, TRUE)

\* els.refresh 'click'
RefreshClick ==
  /\ CanStart
  /\ refreshAll(base, quote, rangeDays, date, amount, feePct, FALSE)
  /\ UNCHANGED <<base, quote, rangeDays, date, amount, feePct>>

\* els.date 'change': state.date = value; fetchHistorical()
DateChange(v) ==
  /\ Started /\ v # date
  /\ date' = v
  /\ IF v = "" \/ base = quote
     THEN /\ historical' = IF v = "" THEN Null ELSE RateRec(v, Int2Num(1))
          /\ rateCards' = RateCardsOf(base, quote, latest, historical')
          /\ UNCHANGED <<inflight, cyc>>
          /\ writer' = [writer EXCEPT !.historical = 0]
     ELSE /\ Len(cyc) < MaxRuns
          /\ inflight' = inflight \cup {Req(Len(cyc) + 1, "historical", base, quote, 0, v)}
          /\ cyc' = Append(cyc, Run("fetchHistorical", base, quote, {"historical"}, "alone", {}))
          /\ UNCHANGED <<historical, rateCards, writer>>
  /\ UNCHANGED <<base, quote, rangeDays, amount, feePct, series, latest>>
  /\ UNCHANGED <<layout, statbar, chart, conversion, storeVars, star>>

\* the continuation of a fetch whose response arrived: the fetch has stored
\* lat1, ser1, hist1; fetchHistorical has rendered the rate cards; and when
\* it was the last of a refreshAll none of whose fetches failed, Promise.all
\* resolves and refreshAll renders
Continuation(r, lat1, ser1, hist1) ==
  LET run == cyc[r.run]
      pend == run.pending \ {r.kind}
      joins == run.op = "refreshAll" /\ run.status = "running" /\ pend = {}
      histRender == r.kind = "historical"
  IN  /\ inflight' = inflight \ {r}
      /\ latest' = lat1
      /\ series' = ser1
      /\ historical' = hist1
      /\ writer' = [writer EXCEPT ![r.kind] = r.run]
      /\ rateCards' = IF histRender \/ joins
                      THEN RateCardsOf(base, quote, lat1, hist1) ELSE rateCards
      /\ statbar' = IF joins THEN StatBarOf(ser1) ELSE statbar
      /\ chart' = IF joins THEN ChartOf(ser1, layout) ELSE chart
      /\ conversion' = IF joins THEN ConversionOf(lat1, amount, feePct) ELSE conversion
      /\ cyc' = [cyc EXCEPT ![r.run] =
                   [@ EXCEPT !.pending = pend,
                             !.done = @ \cup {r.kind},
                             !.status = IF joins THEN "joined" ELSE @,
                             !.rendered = IF joins THEN AllRenders
                                          ELSE IF histRender THEN @ \cup {"renderRateCards"}
                                          ELSE @]]
      /\ star' = IF joins /\ layout = "P" THEN updateFavStar(favorites.items, base, quote) ELSE star
      /\ UNCHANGED <<base, quote, rangeDays, date, amount, feePct, layout, storeVars>>

\* a continuation that stores nothing when a newer run has been started
Complete_discardStale(r, lat1, ser1, hist1) ==
  IF r.run = Len(cyc) THEN Continuation(r, lat1, ser1, hist1)
  ELSE Continuation(r, latest, series, historical)

\* no such check is made: every continuation stores what it received
Complete(r, lat1, ser1, hist1) == Continuation(r, lat1, ser1, hist1)

\* fetchLatest after its await: state.latest = {date, rate: data.rates[state.quote]}
LatestArrives(r, rate) ==
  /\ r \in inflight /\ r.kind = "latest"
  /\ Complete(r, RateRec("today", Lookup(RatesFor(r.quote, rate), quote)), series, historical)

\* fetchSeries after its await
SeriesArrives(r, entries) ==
  /\ r \in inflight /\ r.kind = "series"
  /\ Complete(r, latest, SeriesFrom(entries, quote), historical)

\* fetchHistorical after its await
HistoricalArrives(r, rate) ==
  /\ r \in inflight /\ r.kind = "historical"
  /\ Complete(r, latest, series, RateRec(r.date, Lookup(RatesFor(r.quote, rate), quote)))

\* fetchJSON throws (transport failure or !res.ok): the fetch stores nothing,
\* and a refreshAll still waiting for it is rejected
FetchFails(r) ==
  /\ r \in inflight
  /\ inflight' = inflight \ {r}
  /\ cyc' = [cyc EXCEPT ![r.run] =
               [@ EXCEPT !.pending = @ \ {r.kind},
                         !.failed = @ \cup {r.kind},
                         !.status = IF @ = "running" THEN "rejected" ELSE @]]
  /\ UNCHANGED <<stateVars, layout, pageVars, writer, storeVars, star>>

Init ==
  /\ base = "USD" /\ quote = "EUR" /\ rangeDays = 30 /\ date = ""
  /\ amount = Int2Num(100) /\ feePct = Q(5, 2)
  /\ series = <<>> /\ latest = Null /\ historical = Null
  /\ PageInit /\ NetInit /\ StoreIdle
  /\ layout = "P"

Next ==
  \/ InitialLoad
  \/ \E c \in Currencies : ChangeBase(c)
  \/ \E c \in Currencies : ChangeQuote(c)
  \/ \E d \in RangeOptions : RangeChange(d)
  \/ \E v \in DateInputs : DateChange(v)
  \/ Swap
  \/ Reset
  \/ RefreshClick
  \/ \E x \in TypedAmounts : Started /\ AmountInput(x)
  \/ \E x \in TypedFees : Started /\ FeeInput(x)
  \/ \E r \in inflight, rate \in Rates : LatestArrives(r, rate)
  \/ \E r \in inflight : \E entries \in SeriesBodies(r.quote) : SeriesArrives(r, entries)
  \/ \E r \in inflight, rate \in Rates : HistoricalArrives(r, rate)
  \/ \E r \in inflight : FetchFails(r)

Spec == Init /\ [][Next]_vars

----------------------------------------------------------------------------
(* The persisted entries: favorites, theme, fee *)

StrTok(key) == [k |-> "str", s |-> key, m |-> 0, e |-> 0]
DecTok(m, e) == [k |-> "dec", s |-> <<>>, m |-> m, e |-> e]

RECURSIVE TenTo(_)
TenTo(k) == IF k = 0 THEN 1 ELSE 10 * TenTo(k - 1)

\* JSON.stringify of an array of strings: [ "a" , "b" ]
RECURSIVE Joined(_)
Joined(items) ==
  IF items = <<>> THEN <<>>
  ELSE IF Len(items) = 1 THEN <<StrTok(items[1])>>
  ELSE <<StrTok(items[1]), Tok(",")>> \o Joined(Tail(items))

JSONstringify(val) == Text(<<Tok("[")>> \o Joined(val.items) \o <<Tok("]")>>)

\* the elements between the brackets: strings separated by commas
IsElements(inner) ==
  \/ inner = <<>>
  \/ /\ Len(inner) % 2 = 1
     /\ \A i \in 1..Len(inner) :
          inner[i].k = (IF i % 2 = 1 THEN "str" ELSE ",")

\* JSON.parse: the value, or thrown for a text that is no JSON
JSONparse(toks) ==
  IF Len(toks) = 1 /\ toks[1].k = "null"
  THEN [thrown |-> FALSE, val |-> [t |-> "null", items |-> <<>>]]
  ELSE IF Len(toks) = 1 /\ toks[1].k = "dec"
  THEN [thrown |-> FALSE, val |-> [t |-> "number", items |-> <<>>]]
  ELSE IF /\ Len(toks) >= 2 /\ toks[1].k = "[" /\ toks[Len(toks)].k = "]"
          /\ IsElements(SubSeq(toks, 2, Len(toks) - 1))
  THEN [thrown |-> FALSE,
        val |-> List([j \in 1..(Len(toks) - 1) \div 2 |-> toks[2 * j].s])]
  ELSE [thrown |-> TRUE, val |-> List(<<>>)]

\* loadFavorites(): JSON.parse(getItem('fx-favorites') || '[]'), [] if it throws
loadFavorites(entry) ==
  LET toks == IF entry.t = "absent" \/ entry.toks = <<>>
              THEN <<Tok("["), Tok("]")>> ELSE entry.toks
  IN  IF JSONparse(toks).thrown THEN List(<<>>) ELSE JSONparse(toks).val

\* String(n) of a number with at most 6 decimals
DecimalsOf(x) == CHOOSE e \in 0..6 :
  /\ (Abs(x.n) * TenTo(e)) % x.d = 0
  /\ \A f \in 0..(e - 1) : (Abs(x.n) * TenTo(f)) % x.d # 0

NumberToString(x) ==
  IF IsNum(x)
  THEN Text(<<DecTok((x.n * TenTo(DecimalsOf(x))) \div x.d, DecimalsOf(x))>>)
  ELSE Text(<<Tok(x.t)>>)

\* Number(text)
StringToNumber(entry) ==
  IF entry.toks = <<>> THEN Int2Num(0)
  ELSE IF Len(entry.toks) = 1 /\ entry.toks[1].k = "dec"
  THEN Q(entry.toks[1].m, TenTo(entry.toks[1].e))
  ELSE NaN

pairKey == <<base, quote>>

\* what the three entries can hold when the page is opened
StoredFavorites ==
  { Absent, Text(<<>>), Text(<<Tok("junk")>>), Text(<<Tok("[")>>),
    Text(<<Tok("null")>>), Text(<<DecTok(5, 0)>>),
    JSONstringify(List(<<>>)), JSONstringify(List(<< <<"USD", "EUR">> >>)),
    JSONstringify(List(<< <<"EUR", "USD">>, <<"USD", "EUR">> >>)) }
StoredThemes == {Absent, Text(<<Tok("light")>>), Text(<<Tok("dark")>>)}
StoredFees == {Absent, Text(<<Tok("junk")>>), NumberToString(Int2Num(5))}

\* the script runs: the state record is built (favorites: loadFavorites()),
\* the theme is applied, init() runs up to the registration of the handlers
Startup ==
  /\ boot = "boot"
  /\ favorites' = IF layout = "P" THEN loadFavorites(storage.fav) ELSE List(<<>>)
  /\ theme' = IF storage.theme.t = "absent" \/ storage.theme.toks = <<>>
              THEN "light" ELSE storage.theme.toks[1].k
  /\ feePct' = IF layout = "MT" /\ storage.fee.t # "absent"
               THEN OrElse(StringToNumber(storage.fee), Int2Num(0)) ELSE feePct
  \* syncControlsFromState calls updateFavStar: state.favorites.includes
  /\ boot' = IF favorites'.t = "list" THEN "ready" ELSE "failed"
  /\ feeEdited' = FALSE
  /\ star' = IF layout = "P" /\ favorites'.t = "list"
             THEN updateFavStar(favorites'.items, base, quote) ELSE star
  /\ UNCHANGED <<base, quote, rangeDays, date, amount, series, latest, historical>>
  /\ UNCHANGED <<storage, layout, pageVars, netVars>>

Without(items, i) == SubSeq(items, 1, i - 1) \o SubSeq(items, i + 1, Len(items))

\* state.favorites.indexOf(key), zero-based, -1 when the key is not in it
indexOf(items, key) ==
  IF \E i \in 1..Len(items) : items[i] = key
  THEN (CHOOSE i \in 1..Len(items) :
          /\ items[i] = key
          /\ \A j \in 1..(i - 1) : items[j] # key) - 1
  ELSE -1

\* the toggle pushing the key whether it is in the list or not
Toggled_alwaysPush(items, key) == Append(items, key)

\* if (i >= 0) state.favorites.splice(i,1); else state.favorites.push(key)
Toggled(items, key) ==
  IF indexOf(items, key) >= 0
  THEN Without(items, indexOf(items, key) + 1)
  ELSE Append(items, key)

\* toggleFavorite(): remove the key of the pair or push it, then saveFavorites()
toggleFavorite ==
  /\ boot = "ready" /\ layout = "P"
  /\ favorites' = List(Toggled(favorites.items, pairKey))
  /\ storage' = [storage EXCEPT !.fav = JSONstringify(favorites')]
  /\ star' = updateFavStar(favorites'.items, base, quote)
  /\ UNCHANGED <<stateVars, layout, pageVars, netVars, theme, feeEdited, boot>>

\* themeToggle 'click'
ThemeToggle ==
  /\ boot # "boot"
  /\ theme' = IF theme = "light" THEN "dark" ELSE "light"
  /\ storage' = [storage EXCEPT !.theme = Text(<<Tok(theme')>>)]
  /\ UNCHANGED <<stateVars, layout, pageVars, netVars, favorites, feeEdited, boot, star>>

\* els.fee 'change', which follows the 'input' events of an edit:
\* localStorage.setItem('feePct', String(state.feePct))
FeeChange ==
  /\ boot = "ready" /\ feeEdited
  /\ feeEdited' = FALSE
  /\ storage' = IF layout = "MT"
                THEN [storage EXCEPT !.fee = NumberToString(feePct)] ELSE storage
  /\ UNCHANGED <<stateVars, layout, pageVars, netVars, favorites, theme, boot, star>>

\* the page is opened with whatever the entries hold
StoreInit ==
  /\ layout \in Layouts
  /\ base = InitialState(layout).base /\ quote = InitialState(layout).quote
  /\ rangeDays = InitialState(layout).rangeDays /\ date = InitialState(layout).date
  /\ amount = InitialState(layout).amount /\ feePct = InitialState(layout).feePct
  /\ series = <<>> /\ latest = Null /\ historical = Null
  /\ PageInit /\ NetInit
  /\ storage \in [fav : StoredFavorites, theme : StoredThemes, fee : StoredFees]
  /\ favorites = List(<<>>) /\ theme = "light" /\ feeEdited = FALSE
  /\ boot = "boot" /\ star = FALSE

StoreNext ==
  \/ Startup
  \/ boot = "ready" /\ InitialLoad
  \/ boot = "ready" /\ Swap
  \/ boot = "ready" /\ Reset
  \/ \E x \in TypedFees : boot = "ready" /\ Started /\ FeeInput(x)
  \/ FeeChange
  \/ toggleFavorite
  \/ ThemeToggle

StoreSpec == StoreInit /\ [][StoreNext]_vars

----------------------------------------------------------------------------
(* The favorite star: the program with favorites, its refreshes answered or failing *)

\* the codes the quote select offers here
FavCurrencies == {"USD", "EUR", "GBP"}

\* the page is opened with a list of favorites stored, or none
FavInit ==
  /\ StoreInit
  /\ layout = "P"
  /\ storage.theme = Absent /\ storage.fee = Absent
  /\ storage.fav \in {Absent, JSONstringify(List(<< <<"USD", "EUR">> >>))}

FavNext ==
  \/ Startup
  \/ boot = "ready" /\ InitialLoad
  \/ \E c \in FavCurrencies : boot = "ready" /\ ChangeQuote(c)
  \/ boot = "ready" /\ Swap
  \/ boot = "ready" /\ Reset
  \/ toggleFavorite
  \/ \E r \in inflight, rate \in Rates : LatestArrives(r, rate)
  \/ \E r \in inflight : \E entries \in SeriesBodies(r.quote) : SeriesArrives(r, entries)
  \/ \E r \in inflight : FetchFails(r)

FavSpec == FavInit /\ [][FavNext]_vars

----------------------------------------------------------------------------
(* Claims about the chart geometry (ChartSpec) *)

PlotLeft(l) == IF l = "MT" THEN M.left ELSE P
PlotRight(l) == IF l = "MT" THEN W - M.right ELSE W - P
PlotTop(l) == IF l = "MT" THEN M.top ELSE P
PlotBottom(l) == IF l = "MT" THEN H - M.bottom ELSE H - P
Midline(l) == Q(PlotTop(l) + PlotBottom(l), 2)

\* C4: for every rendered non-empty series whose high equals its low, every
\* mapped y-coordinate (path points, grid lines, marker dots) is the vertical
\* midline of the plot area, a number: nothing was divided by high - low.
C4_FlatSeriesAtMidline ==
  (chart.t = "chart" /\ StrictEq(Hi(series), Lo(series))) =>
    /\ Len(chart.stroke) = Len(series)
    /\ \A k \in 1..Len(chart.stroke) : chart.stroke[k].y = Midline(layout)
    /\ \A k \in 1..Len(chart.grid) : chart.grid[k].y = Midline(layout)
    /\ chart.dotHi.t = "circle" /\ chart.dotHi.cy = Midline(layout)
    /\ chart.dotLo.t = "circle" /\ chart.dotLo.cy = Midline(layout)

C4_Witness ==
  /\ chart.t = "chart" /\ layout = "MT" /\ Len(series) = 3
  /\ StrictEq(Hi(series), Lo(series))
  /\ chart.stroke[3].y = Int2Num(130)

\* C5 as amended: for every rendered series of length 1 the x-mapping puts
\* index 0 at the left margin, its divisor n-1 being replaced by 1, and the
\* tick selector returns exactly one tick, index 0; the stride of the tick
\* selector is computed with the divisor targetCount-1 = 0, unclamped, and
\* is NaN.
C5_SingleSample ==
  (chart.t = "chart" /\ Len(series) = 1) =>
    /\ Len(chart.stroke) = 1
    /\ chart.stroke[1].x = Int2Num(PlotLeft(layout))
    /\ XsDivisor(Len(series)) = Int2Num(1)
    /\ layout # "P" =>
         /\ Len(chart.xticks) = 1
         /\ chart.xticks[1].i = 0
         /\ chart.xticks[1].x = Int2Num(PlotLeft(layout))
         /\ StepDivisor(Len(series)) = Int2Num(0)
         /\ step(Len(series)) = NaN

C5_Witness ==
  /\ chart.t = "chart" /\ Len(series) = 1 /\ layout = "PT"
  /\ Len(chart.xticks) = 1
  /\ chart.stroke[1].x = Int2Num(36)

\* C5 as claimed: for every rendered series of length 1 the x-mapping returns
\* the left margin, the tick selector returns the one tick 0, and neither
\* divides by zero: both divisors are treated as 1.
C5_NoDivisionByZero ==
  (chart.t = "chart" /\ Len(series) = 1) =>
    /\ chart.stroke[1].x = Int2Num(PlotLeft(layout))
    /\ XsDivisor(Len(series)) = Int2Num(1)
    /\ layout # "P" =>
         /\ Len(chart.xticks) = 1 /\ chart.xticks[1].i = 0
         /\ StepDivisor(Len(series)) = Int2Num(1)

----------------------------------------------------------------------------
(* Claims about the conversion (ConvSpec) *)

\* C6: the conversion panel shows effectiveRate = r * max(0, 1 - f/100) and
\* converted = a * effectiveRate for the current rate r (1 when no rate is
\* stored), amount a and fee f; for a = 100, r = 1.2, f = 2.5 these are 1.17
\* and 117.
C6_ConversionFormula ==
  conversion.t = "conversion" =>
    LET r == IF latest.t = "null" \/ latest.rate.t = "undefined"
             THEN Int2Num(1) ELSE latest.rate
        factor == IF Lt(feePct, Int2Num(100))
                  THEN Q(100 * feePct.d - feePct.n, 100 * feePct.d) ELSE Int2Num(0)
    IN  /\ conversion.effectiveRate = Mul(r, factor)
        /\ conversion.out = Mul(amount, conversion.effectiveRate)
        /\ (amount = Int2Num(100) /\ r = Q(6, 5) /\ feePct = Q(5, 2)) =>
              /\ conversion.effectiveRate = Q(117, 100)
              /\ conversion.out = Int2Num(117)
              /\ conversion.shownOut = [t |-> "text", s |-> "num", n |-> 117, d |-> 1]

C6_Witness ==
  /\ conversion.t = "conversion"
  /\ amount = Int2Num(100) /\ feePct = Q(5, 2)
  /\ latest.t = "rate" /\ latest.rate = Q(6, 5)
  /\ conversion.out = Int2Num(117)

\* C7: for the rate shown, the effective rate does not increase when the fee
\* is replaced by any larger fee the input can store; the fee factor is never
\* negative; the effective rate is 0 when the fee is 100 or more.
C7_EffectiveRateMonotone ==
  conversion.t = "conversion" =>
    /\ Le(Int2Num(0), conversion.feeFactor)
    /\ Le(Int2Num(100), feePct) => conversion.effectiveRate = Int2Num(0)
    /\ \A x \in FeeInputs :
         LET f == OrElse(x, Int2Num(0))
         IN  /\ Le(feePct, f) =>
                  Le(ConversionOf(latest, amount, f).effectiveRate, conversion.effectiveRate)
             /\ Le(f, feePct) =>
                  Le(conversion.effectiveRate, ConversionOf(latest, amount, f).effectiveRate)

C7_Witness ==
  /\ conversion.t = "conversion"
  /\ feePct = Int2Num(150)
  /\ conversion.effectiveRate = Int2Num(0)
  /\ latest.t = "rate" /\ latest.rate = Q(6, 5)

----------------------------------------------------------------------------
(* Claims about refreshAll and the fetches (Spec) *)

Refreshes == {c \in 1..Len(cyc) : cyc[c].op = "refreshAll"}

\* C1: when one of the three fetches of a refreshAll fails, nothing is
\* rendered for that refresh: neither by refreshAll after the join nor by one
\* of its fetches.
C1_NoRenderWhenFetchFails ==
  \A c \in Refreshes : cyc[c].failed # {} => cyc[c].rendered = {}

\* C2: between the start of a refreshAll and the join of its three fetches
\* nothing is rendered for it.
C2_NoRenderBeforeJoin ==
  \A c \in Refreshes : cyc[c].status = "running" => cyc[c].rendered = {}

\* C3: every response that arrives is stored in the state record, whichever
\* run sent the request and whatever has been started or stored since, so
\* each of latest, series and historical is that of the response of its kind
\* that arrived last.
C3_EveryResponseWrites ==
  [][\A r \in inflight :
       (r \notin inflight' /\ r.kind \in cyc'[r.run].done) =>
         /\ writer'[r.kind] = r.run
         /\ r.kind = "latest" =>
              \E rate \in Rates :
                latest' = RateRec("today", Lookup(RatesFor(r.quote, rate), quote))
         /\ r.kind = "series" =>
              \E entries \in SeriesBodies(r.quote) : series' = SeriesFrom(entries, quote)
         /\ r.kind = "historical" =>
              \E rate \in Rates :
                historical' = RateRec(r.date, Lookup(RatesFor(r.quote, rate), quote))]_vars

\* the latest rate of the newer refresh had arrived, and the response of the
\* older refresh, arriving after it, has replaced it
C3_Witness ==
  \E c1 \in Refreshes, c2 \in Refreshes :
    /\ c1 < c2
    /\ "latest" \in cyc[c2].sent /\ "latest" \in cyc[c2].done
    /\ "latest" \in cyc[c1].sent /\ "latest" \in cyc[c1].done
    /\ writer.latest = c1
    /\ latest.t = "rate"

\* amount * max(0, 1 - fee/100)
NetAmount(amt, fee) ==
  IF Lt(fee, Int2Num(100)) THEN Mul(amt, Q(100 * fee.d - fee.n, 100 * fee.d))
  ELSE Int2Num(0)

SamePairRefresh ==
  /\ Len(cyc') = Len(cyc) + 1
  /\ cyc'[Len(cyc')].op = "refreshAll"
  /\ base' = quote'

SamePairResult ==
  /\ inflight' = inflight
  /\ latest'.t = "rate" /\ latest'.rate = Int2Num(1)
  /\ Len(series') = rangeDays'
  /\ \A k \in 1..Len(series') : series'[k] = [d |-> k - rangeDays', v |-> Int2Num(1)]
  /\ historical' = IF date' = "" THEN Null ELSE RateRec(date', Int2Num(1))
  /\ conversion'.t = "conversion"

C9_StatsAreMaxMinMean ==
  statbar.t = "stats" =>
    LET s == statbar.of
        n == Len(s)
    IN  /\ \E k \in 1..n : s[k].v = statbar.hi
        /\ \A k \in 1..n : Le(s[k].v, statbar.hi)
        /\ \E k \in 1..n : s[k].v = statbar.lo
        /\ \A k \in 1..n : Le(statbar.lo, s[k].v)
        /\ Mul(statbar.mean, Int2Num(n)) = SumFrom(Vals(s), 1, Int2Num(0))
        /\ Le(statbar.lo, statbar.mean) /\ Le(statbar.mean, statbar.hi)
        /\ Vals(s) = <<Q(11, 10), Q(6, 5), Q(23, 20)>> =>
             /\ statbar.hi = Q(6, 5) /\ statbar.lo = Q(11, 10)
             /\ statbar.mean = Q(23, 20)

\* C10: for a rendered non-empty series the high marker is at the lowest
\* index whose value is the high and the low marker at the lowest index whose
\* value is the low; both markers exist.
C10_MarkersAtFirstExtreme ==
  (chart.t = "chart" /\ statbar.t = "stats") =>
    LET s == statbar.of
        FirstAt(val, i) ==
          /\ i \in 0..(Len(s) - 1)
          /\ s[i + 1].v = val
          /\ \A j \in 1..i : s[j].v # val
    IN  /\ chart.dotHi.t = "circle" /\ FirstAt(statbar.hi, chart.dotHi.i)
        /\ chart.dotLo.t = "circle" /\ FirstAt(statbar.lo, chart.dotLo.i)

----------------------------------------------------------------------------
(* Claims about the axis ticks (TickSpec) *)

Min8(n) == IF n < 8 THEN n ELSE 8

\* max(1, floor((n-1)/(min(8,n)-1))) for n >= 2
Stride(n) ==
  LET q == (n - 1) \div (Min8(n) - 1)
  IN  IF q < 1 THEN 1 ELSE q

TickList == [k \in 1..Len(chart.xticks) |-> chart.xticks[k].i]

\* C11: for every rendered series of length n >= 1 the x-axis tick indices
\* are exactly the multiples of stride = max(1, floor((n-1)/(min(8,n)-1)))
\* below n (0 alone for n = 1), plus n-1; the list is strictly increasing,
\* starts at 0, stays within 0..n-1 and ends with n-1.
C11_TickIndices ==
  (chart.t = "chart" /\ layout # "P") =>
    LET n == Len(series)
        t == TickList
    IN  /\ Len(t) >= 1 /\ t[1] = 0 /\ t[Len(t)] = n - 1
        /\ \A k \in 1..Len(t) : t[k] \in 0..(n - 1)
        /\ \A k \in 1..(Len(t) - 1) : t[k] < t[k + 1]
        /\ {t[k] : k \in 1..Len(t)} =
             IF n = 1 THEN {0}
             ELSE {i \in 0..(n - 1) : i % Stride(n) = 0} \cup {n - 1}

\* sixteen samples: the stride 2 selects 0, 2, ..., 14 and 15 is added
C11_Witness ==
  /\ chart.t = "chart" /\ layout = "MT" /\ Len(series) = 16
  /\ Len(chart.xticks) = 9
  /\ chart.xticks[8].i = 14 /\ chart.xticks[9].i = 15

\* C12: the number of x-axis ticks of a rendered series of length n >= 1 is
\* at most min(8, n).
C12_TickCountBounded ==
  (chart.t = "chart" /\ layout # "P") =>
    Len(chart.xticks) <= Min8(Len(series))

----------------------------------------------------------------------------
(* Claims about the paths and the coordinate mapping (ChartSpec) *)

\* C13: the stroke path and the fill path of a rendered series hold one
\* segment per sample, the k-th segment being the point of the k-th sample:
\* a move command for the first sample and a line command for every later
\* one, equal values included; the fill path continues with the two corners
\* of the bottom plot edge.
C13_OneSegmentPerSample ==
  chart.t = "chart" =>
    LET n == Len(series)
    IN  /\ Len(chart.stroke) = n
        /\ Len(chart.fill) = n + 2
        /\ \A k \in 1..n :
             /\ chart.stroke[k].cmd = (IF k = 1 THEN "M" ELSE "L")
             /\ chart.stroke[k].x = xs(k - 1, n, layout)
             /\ chart.stroke[k].y = ys(series[k].v, Lo(series), Hi(series), layout)
             /\ chart.fill[k] = chart.stroke[k]
        /\ chart.fill[n + 1] =
             [cmd |-> "L", x |-> Int2Num(PlotRight(layout)), y |-> Int2Num(PlotBottom(layout))]
        /\ chart.fill[n + 2] =
             [cmd |-> "L", x |-> Int2Num(PlotLeft(layout)), y |-> Int2Num(PlotBottom(layout))]

\* the first and the third sample have the same value and each its segment
C13_Witness ==
  /\ chart.t = "chart" /\ Len(series) = 3
  /\ series[1].v = Q(6, 5) /\ series[2].v = Q(11, 10) /\ series[3].v = Q(6, 5)
  /\ Len(chart.stroke) = 3
  /\ chart.stroke[1].y = chart.stroke[3].y
  /\ chart.stroke[2].y # chart.stroke[3].y
  /\ chart.stroke[1].cmd = "M" /\ chart.stroke[3].cmd = "L"

\* C18: for every rendered series with n >= 2 and high > low, x is linear and
\* strictly increasing in the index from the left margin to W - right margin,
\* y is linear and strictly decreasing in the value from the bottom plot edge
\* (low) to the top plot edge (high), and every point is inside the plot area.
C18_LinearInsidePlot ==
  (chart.t = "chart" /\ Len(series) >= 2 /\ Lt(Lo(series), Hi(series))) =>
    LET n == Len(series)
        left == PlotLeft(layout)
        right == PlotRight(layout)
        top == PlotTop(layout)
        bottom == PlotBottom(layout)
        lo == Lo(series)
        hi == Hi(series)
        pt(k) == chart.stroke[k]
    IN  /\ pt(1).x = Int2Num(left) /\ pt(n).x = Int2Num(right)
        /\ \A k \in 1..n : pt(k).x = Q(left * (n - 1) + (k - 1) * (right - left), n - 1)
        /\ \A k \in 1..(n - 1) : Lt(pt(k).x, pt(k + 1).x)
        /\ \A k \in 1..n :
             pt(k).y = Sub(Int2Num(bottom),
                           Mul(Int2Num(bottom - top),
                               Div(Sub(series[k].v, lo), Sub(hi, lo))))
        /\ \A j \in 1..n, k \in 1..n :
             Lt(series[j].v, series[k].v) => Lt(pt(k).y, pt(j).y)
        /\ chart.dotLo.cy = Int2Num(bottom) /\ chart.dotHi.cy = Int2Num(top)
        /\ \A k \in 1..n :
             /\ Le(Int2Num(left), pt(k).x) /\ Le(pt(k).x, Int2Num(right))
             /\ Le(Int2Num(top), pt(k).y) /\ Le(pt(k).y, Int2Num(bottom))

\* three rising samples in the renderer with margins M: from (80, 240) over
\* the middle of the plot to (964, 20)
C18_Witness ==
  /\ chart.t = "chart" /\ layout = "MT" /\ Len(series) = 3
  /\ series[1].v = Q(11, 10) /\ series[2].v = Q(23, 20) /\ series[3].v = Q(6, 5)
  /\ chart.stroke[1].x = Int2Num(80) /\ chart.stroke[1].y = Int2Num(240)
  /\ chart.stroke[2].x = Int2Num(522) /\ chart.stroke[2].y = Int2Num(130)
  /\ chart.stroke[3].x = Int2Num(964) /\ chart.stroke[3].y = Int2Num(20)

----------------------------------------------------------------------------
(* Claims about rendering in the application (Spec) *)

\* renderStatsAndChart has been called in this step
StatsRendered ==
  \E c \in 1..Len(cyc') :
    /\ "renderStatsAndChart" \in cyc'[c].rendered
    /\ c > Len(cyc) \/ "renderStatsAndChart" \notin cyc[c].rendered

\* C14: whenever renderStatsAndChart is called with an empty series it clears
\* the stat bar and the chart; statistics and a chart are produced only from
\* the series of length >= 1 that is stored at the call.
C14_EmptySeriesRendersNothing ==
  [][StatsRendered =>
       IF Len(series') = 0
       THEN statbar' = Empty /\ chart' = Empty
       ELSE /\ statbar'.t = "stats" /\ chart'.t = "chart"
            /\ statbar'.of = series' /\ Len(statbar'.of) >= 1]_vars

\* the second refresh was answered with no entries and has been rendered
C14_Witness ==
  /\ Len(cyc) = 2
  /\ cyc[1].status = "joined" /\ cyc[2].status = "joined"
  /\ "series" \in cyc[2].sent
  /\ "renderStatsAndChart" \in cyc[2].rendered
  /\ writer.series = 2 /\ series = <<>>
  /\ statbar = Empty /\ chart = Empty
  /\ rateCards.t = "cards"

----------------------------------------------------------------------------
(* Claims about the formatting of the values shown (ChartSpec) *)

\* C17: every statistic and every axis label of a rendered series whose
\* value is not a finite number is shown as the placeholder.
C17_PlaceholderForNonFinite ==
  (chart.t = "chart" /\ statbar.t = "stats") =>
    /\ ~IsNum(statbar.hi) => statbar.high = Dash
    /\ ~IsNum(statbar.lo) => statbar.low = Dash
    /\ ~IsNum(statbar.mean) => statbar.avg = Dash
    /\ \A k \in 1..Len(chart.grid) :
         ~IsNum(chart.grid[k].v) => chart.grid[k].label = Dash

----------------------------------------------------------------------------
(* Claims about the stored series (Spec) *)

Ascending(s) == \A k \in 1..(Len(s) - 1) : s[k].d < s[k + 1].d

\* a series request of this step has been answered and its continuation run
SeriesCompleted(r) ==
  /\ r \in inflight /\ r.kind = "series"
  /\ r \notin inflight' /\ "series" \in cyc'[r.run].done

----------------------------------------------------------------------------
(* Claims about the pair shown with a rate (Spec) *)

\* the rate stored by run c (or computed without a request, c = 0, for an
\* identical pair) belongs to the pair b/q
FetchedFor(c, b, q) ==
  IF c = 0 THEN b = q ELSE cyc'[c].base = b /\ cyc'[c].quote = q

\* C20: whenever the rate cards or the conversion panel are rendered, the
\* latest rate (and the historical rate) shown was fetched for the base/quote
\* pair shown with it.
C20_RateShownBelongsToPair ==
  [][/\ rateCards' # rateCards =>
          /\ rateCards'.latest.t = "rate" =>
               FetchedFor(writer'.latest, rateCards'.base, rateCards'.quote)
          /\ rateCards'.hist.t = "rate" =>
               FetchedFor(writer'.historical, rateCards'.base, rateCards'.quote)
     /\ conversion' # conversion =>
          (latest'.t = "rate" => FetchedFor(writer'.latest, base', quote'))]_vars

----------------------------------------------------------------------------
(* Claims about the persisted entries (StoreSpec) *)

\* C15: whatever the 'fx-favorites' entry holds when the page is opened,
\* state.favorites is a list after loadFavorites, and the empty list when
\* the entry is no JSON text.
C15_FavoritesLoadedAsList ==
  [][(boot = "boot" /\ boot' # "boot" /\ layout = "P") =>
       /\ favorites'.t = "list"
       /\ (storage.fav.t = "text" /\ JSONparse(storage.fav.toks).thrown) =>
            favorites' = List(<<>>)]_vars

\* C16: after every favorite toggle the 'fx-favorites' entry is the list in
\* memory, after every theme toggle the 'theme' entry is the active theme,
\* and after every action that changes the fee (a committed fee edit, a
\* reset) the 'feePct' entry is state.feePct.
C16_StoredEqualsMemory ==
  [][boot # "boot" =>
       /\ favorites' # favorites =>
            (~JSONparse(storage'.fav.toks).thrown
               /\ JSONparse(storage'.fav.toks).val = favorites')
       /\ theme' # theme => storage'.theme = Text(<<Tok(theme')>>)
       /\ (layout = "MT" /\ (feePct' # feePct \/ feeEdited # feeEdited') /\ ~feeEdited') =>
            (storage'.fee.t = "text" /\ StringToNumber(storage'.fee) = feePct')]_vars

----------------------------------------------------------------------------
(* Claims about what the fetches store (Spec) *)

\* C21: a stored rate or series value is never undefined: latest.rate,
\* historical.rate and every v of the series are numbers, whatever was
\* changed while the request was in flight.
C21_StoredValueNeverUndefined ==
  /\ latest.t = "rate" => latest.rate # Undefined
  /\ historical.t = "rate" => historical.rate # Undefined
  /\ \A k \in 1..Len(series) : series[k].v # Undefined

\* C22: when a fetch of a refreshAll has failed, none of latest, series and
\* historical holds a value stored by a fetch of that refreshAll whose
\* request succeeded.
C22_FailedRefreshStoresNothing ==
  \A c \in Refreshes :
    cyc[c].failed # {} => \A k \in cyc[c].sent : writer[k] # c

----------------------------------------------------------------------------
(* Claims about the favorites list (StoreSpec) *)

NoDuplicate(items) ==
  \A i \in 1..Len(items), j \in 1..Len(items) : items[i] = items[j] => i = j

KeysOf(items) == {items[i] : i \in 1..Len(items)}

\* C23 as amended: a toggle adds the key of the current pair when it is
\* absent and removes it when present; two toggles of the same pair restore
\* the keys of the list and its length, a key that was present being moved to
\* the end; the list, duplicate-free when loaded, never holds a duplicate.
C23_ToggleTwiceRestoresKeys ==
  (boot = "ready" /\ layout = "P") =>
    LET items == favorites.items
        once == Toggled(items, pairKey)
        twice == Toggled(once, pairKey)
    IN  /\ NoDuplicate(items)
        /\ KeysOf(once) = IF pairKey \in KeysOf(items)
                          THEN KeysOf(items) \ {pairKey}
                          ELSE KeysOf(items) \cup {pairKey}
        /\ NoDuplicate(once) /\ NoDuplicate(twice)
        /\ KeysOf(twice) = KeysOf(items) /\ Len(twice) = Len(items)
        /\ pairKey \notin KeysOf(items) => twice = items
        /\ pairKey \in KeysOf(items) => twice[Len(twice)] = pairKey

\* EUR/USD was the first of the two stored favorites; after the swap to
\* EUR/USD and two toggles it is the last
C23_Witness ==
  /\ boot = "ready" /\ layout = "P"
  /\ pairKey = <<"EUR", "USD">>
  /\ favorites.items = << <<"USD", "EUR">>, <<"EUR", "USD">> >>
  /\ storage.fav = JSONstringify(favorites)

\* C23 as claimed: two toggles of the same pair restore the favorites list.
C23_ToggleTwiceRestoresList ==
  (boot = "ready" /\ layout = "P") =>
    /\ NoDuplicate(favorites.items)
    /\ Toggled(Toggled(favorites.items, pairKey), pairKey) = favorites.items

\* C24: once a user action has been handled (no refreshAll still waits for a
\* response), the favorite star is on exactly when the current pair is in the
\* favorites list, also when the refresh the action started has failed.
C24_StarReflectsPair ==
  (boot = "ready" /\ layout = "P" /\ Started
     /\ \A c \in Refreshes : cyc[c].status # "running") =>
    star = (pairKey \in KeysOf(favorites.items))

----------------------------------------------------------------------------
(* Claims about reset and the amount and fee inputs *)

\* C25: the reset handler leaves base, quote, rangeDays, date, amount and
\* feePct at exactly the values the state record is initialised with.
C25_ResetRestoresInitialState ==
  [][Reset =>
       [base |-> base', quote |-> quote', rangeDays |-> rangeDays', date |-> date',
        amount |-> amount', feePct |-> feePct'] = InitialState(layout)]_vars

\* C26: an edit of the amount or of the fee changes only state.amount or
\* state.feePct, storing 0 for a text that is not a number or is empty (NaN
\* and 0 after the unary plus); it renders the conversion panel and nothing
\* else, sends no request, and leaves base, quote, date, rangeDays, series,
\* latest and historical as they were.
C26_EditChangesOnlyItsField ==
  [][/\ \/ amount' \in (AmountInputs \ {NaN}) \cup {Int2Num(0)} /\ feePct' = feePct
        \/ feePct' \in (FeeInputs \ {NaN}) \cup {Int2Num(0)} /\ amount' = amount
     /\ UNCHANGED <<base, quote, date, rangeDays, series, latest, historical>>
     /\ UNCHANGED <<rateCards, statbar, chart>>
     /\ conversion' = ConversionOf(latest, amount', feePct')
     /\ UNCHANGED <<inflight, cyc, writer>>]_vars

\* both fields edited with the rate loaded: only the conversion panel is drawn
C26_Witness ==
  /\ amount = Int2Num(0) /\ feePct = Int2Num(150)
  /\ latest.t = "rate" /\ latest.rate = Q(9, 10)
  /\ conversion = ConversionOf(latest, amount, feePct) /\ conversion # Empty
  /\ rateCards = Empty /\ statbar = Empty /\ chart = Empty
  /\ inflight = {} /\ cyc = <<>>

====
